---- MODULE Spec2Model ----
(***************************************************************************)
(* Auction board (src/app.py): the auction state engine of the Flask app.  *)
(* The state is the module-level globals team_state, current_card,         *)
(* TEAM_NAMES and _df_players_cache, plus the persisted auction_state.json *)
(* document.  Each request handler is one action (Spec); SpecConc runs the *)
(* handlers of concurrent requests statement by statement: the app holds   *)
(* no lock, and app.run serves each request on a thread of its own.        *)
(* SpecAnyPlayer offers player numbers outside 1..MAX_IMAGE_NUM, and       *)
(* SpecFailing lets put_object fail, SpecStart starts without a stored     *)
(* document, and SpecNames lets the players sheet change or disappear.     *)
(*                                                                         *)
(* Python values: a str that the code inspects (player numbers, display    *)
(* names) is a sequence of one-character strings; None is the empty set    *)
(* and an optional value v is {v}; a dict is the sequence of its items in  *)
(* insertion order.                                                        *)
(***************************************************************************)
EXTENDS Integers, Sequences, FiniteSets, TLC

\* ---------- CONFIG (app.py 12-22) ----------
BUDGET == 10000
MAX_IMAGE_NUM == 120
IMAGE_EXTS == <<".jpg", ".jpeg", ".png", ".webp">>
IMAGES_DIR == "images"

\* ---------- bounds of the model ----------
\* Most roster entries over all teams; assign is not offered beyond it.
MaxEntries == 2

None == {}
Some(v) == {v}
The(o) == CHOOSE v \in o : TRUE

\* ---------- Python str / int conversions ----------
Digits == <<"0", "1", "2", "3", "4", "5", "6", "7", "8", "9">>
DigitChar(d) == Digits[d + 1]
IsDigit(c) == \E d \in 0..9 : DigitChar(d) = c
DigitVal(c) == CHOOSE d \in 0..9 : DigitChar(d) = c

RECURSIVE NatStr(_)
NatStr(n) == IF n < 10 THEN <<DigitChar(n)>>
             ELSE NatStr(n \div 10) \o <<DigitChar(n % 10)>>

\* str(n) of an int, as the f-strings f"{num}_..." and f"{target}_" format it.
IntStr(n) == IF n < 0 THEN <<"-">> \o NatStr(-n) ELSE NatStr(n)

IsSpace(c) == c = " "

\* str.strip(): leading and trailing whitespace removed.
RECURSIVE LStrip(_)
LStrip(s) == IF s # <<>> /\ IsSpace(Head(s)) THEN LStrip(Tail(s)) ELSE s
RECURSIVE RStrip(_)
RStrip(s) == IF s # <<>> /\ IsSpace(s[Len(s)]) THEN RStrip(SubSeq(s, 1, Len(s) - 1)) ELSE s
Strip(s) == RStrip(LStrip(s))

RECURSIVE DigitsVal(_)
DigitsVal(s) == IF s = <<>> THEN 0
                ELSE 10 * DigitsVal(SubSeq(s, 1, Len(s) - 1)) + DigitVal(s[Len(s)])

AllDigits(s) == s # <<>> /\ \A i \in 1..Len(s) : IsDigit(s[i])
Unsigned(s) == IF s # <<>> /\ s[1] \in {"-", "+"} THEN Tail(s) ELSE s

\* int(s): whether it parses (otherwise ValueError), and its value.
IsIntText(s) == AllDigits(Unsigned(Strip(s)))
ParseInt(s) == LET t == Strip(s)
               IN  IF t[1] = "-" THEN 0 - DigitsVal(Tail(t)) ELSE DigitsVal(Unsigned(t))

\* str.startswith
StartsWith(s, pre) == Len(pre) <= Len(s) /\ SubSeq(s, 1, Len(pre)) = pre

\* ---------- inputs of the requests ----------
\* Form field "player": missing/empty, non-numeric, and numbers.
PlayerInputs == { <<>>, <<"x">>, <<"1">>, <<"1", "2">> }
\* Form field "amount".
AmountInputs == { <<"-", "5", "0", "0">>, <<"0">>, <<"1", "0", "0", "0", "0">> }
\* Form field "team".
TeamInputs == {"A", "B"}
\* TeamName column of the team sheet in storage, as uploads leave it.
TeamSheets == { <<"B">>, <<"B", "A", "B">> }
\* Rows (PlayerNo, PlayerName) of the players sheet in storage.
PlayersSheet == << [PlayerNo |-> 1, PlayerName |-> <<"A", "L">>] >>
\* The players sheet after an upload that changes player 1's name.
PlayersSheetRenamed == << [PlayerNo |-> 1, PlayerName |-> <<"Z">>] >>

VARIABLES
    team_state,        \* dict team -> {"left", "players"}, in insertion order
    current_card,      \* {"player", "name", "image_key"}
    TEAM_NAMES,        \* the displayed team-name list
    df_players_cache,  \* _df_players_cache: None or the players sheet
    stored,            \* auction_state.json in the bucket: None or the payload
    resp,              \* the response to the request served last
    saved,             \* history: whether that request called save_state
    last,              \* history: the assign just accepted (None after any other request)
    chain,             \* history: the accepted assign that the undo just served followed
    thr,               \* concurrent requests: each thread's place in its handler and its locals
    serving,           \* whether the process got through its module-level code and serves
    refused,           \* history: team and player fields of the assign just served, if it
                       \* named no team of the state or no player (line 817)
    cleared            \* history: what the reset just served wiped (roster entries, card's player)

vars == <<team_state, current_card, TEAM_NAMES, df_players_cache, stored, resp, saved,
          last, chain, thr, serving, refused, cleared>>

\* ---------- the team_state dict ----------
FreshTeam(name) == [name |-> name, left |-> BUDGET, players |-> <<>>]
TeamKeys(ts) == { ts[i].name : i \in DOMAIN ts }
\* name in team_state
HasTeam(ts, name) == name \in TeamKeys(ts)
TeamPos(ts, name) == CHOOSE i \in DOMAIN ts : ts[i].name = name
\* team_state.setdefault(name, {"left": BUDGET, "players": []})
SetDefault(ts, name) == IF HasTeam(ts, name) THEN ts ELSE Append(ts, FreshTeam(name))
\* for name in names: team_state.setdefault(name, ...)
RECURSIVE SetDefaultAll(_, _)
SetDefaultAll(ts, names) == IF names = <<>> THEN ts
                            ELSE SetDefaultAll(SetDefault(ts, Head(names)), Tail(names))
\* {name: {"left": BUDGET, "players": []} for name in names}
FreshState(names) == SetDefaultAll(<<>>, names)

EmptyCard == [player |-> None, name |-> None, image_key |-> None]

\* ---------- team names (load_team_names) ----------
DefaultTeamNames == << "OCB", "SUPER TITANZ", "HEROES VALLIKUNNAM", "MJ ELEVEN", "EMINS 11",
                       "3K ELEVEN", "ADAMZ", "VIKINGS", "PATH XI", "BROTHERS ADINADU",
                       "GJ BOYS", "SALALA VTML" >>
RECURSIVE Dedup(_, _)
Dedup(names, ordered) ==
    IF names = <<>> THEN ordered
    ELSE IF \E i \in DOMAIN ordered : ordered[i] = Head(names)
         THEN Dedup(Tail(names), ordered)
         ELSE Dedup(Tail(names), Append(ordered, Head(names)))
\* sheet: None (no readable team sheet) or the TeamName column.
load_team_names(sheet) ==
    LET ordered == IF sheet = None THEN <<>> ELSE Dedup(The(sheet), <<>>)
    IN  IF ordered # <<>> THEN ordered ELSE DefaultTeamNames
\* What read_teamnames_df may find in storage.
TeamSheetReads == { Some(s) : s \in TeamSheets }

\* ---------- player names (get_player_name) ----------
UnknownName(num) == <<"U", "n", "k", "n", "o", "w", "n", "_">> \o IntStr(num)
\* What read_players_df may return: None, or the sheet.
PlayersReads == { Some(PlayersSheet) }
\* The cache after get_player_name's lazy load; df is what read_players_df returns.
CacheAfterLookup(cache, df) == IF cache = None THEN df ELSE cache
PlayerName(cache, num) ==
    IF cache = None THEN UnknownName(num)
    ELSE LET sheet == The(cache)
             rows  == { i \in DOMAIN sheet : sheet[i].PlayerNo = num }
         IN  IF rows # {} THEN sheet[CHOOSE i \in rows : \A j \in rows : i <= j].PlayerName
             ELSE UnknownName(num)

\* ---------- persistence (save_state, put_object) ----------
Payload(ts, card) == [budget |-> BUDGET, team_state |-> ts, current_card |-> card]
\* The document in storage after save_state; put_ok is put_object's outcome.
\* (saved_at, a wall-clock stamp, is left out of the payload.)
StoredAfterSave(old, ts, card, put_ok) == IF put_ok THEN Some(Payload(ts, card)) ELSE old

\* ---------- rosters ----------
RECURSIVE SumPrize(_)
SumPrize(players) == IF players = <<>> THEN 0
                     ELSE Head(players).prize + SumPrize(Tail(players))
RECURSIVE TotalEntries(_)
TotalEntries(ts) == IF ts = <<>> THEN 0 ELSE Len(Head(ts).players) + TotalEntries(Tail(ts))

\* A reindex that leaves the indices as they are.
Reindex_Skip(players) == players
\* A reindex that also rewrites each display name from the player number.
Reindex_Rename(players) ==
    [ i \in DOMAIN players |->
        [players[i] EXCEPT !.idx = i, !.name = IntStr(players[i].player_num) \o <<"_">>] ]
\* _reindex_team: p["idx"] = i for i, p in enumerate(players, start=1)
Reindex(players) == [ i \in DOMAIN players |-> [players[i] EXCEPT !.idx = i] ]

\* assign, line 820: display = f"{num}_{pname}"
DisplayName(num, pname) == IntStr(num) \o <<"_">> \o pname
\* A budget check that also rejects a price equal to the balance.
NotEnough_AtBalance(amount, left) == amount >= left
\* assign, line 821: the budget check that rejects
NotEnough(amount, left) == amount > left
\* An assign that appends and forgets the decrement.
AssignTeam_NoDecrement(t, num, display, amount) ==
    [t EXCEPT !.players = Append(@, [idx |-> Len(t.players) + 1, name |-> display,
                                      prize |-> amount, player_num |-> num])]
\* assign, lines 823-825: the team after the append and the decrement
AssignTeam(t, num, display, amount) ==
    LET idx == Len(t.players) + 1
    IN  [t EXCEPT !.players = Append(@, [idx |-> idx, name |-> display,
                                          prize |-> amount, player_num |-> num]),
                  !.left = @ - amount]

\* A match on the number as a bare prefix of the display name.
UndoMatch_BarePrefix(p, target) ==
    \/ p.player_num = target
    \/ StartsWith(p.name, IntStr(target))
\* undo, line 837: the match of one roster entry
UndoMatch(p, target) ==
    \/ p.player_num = target
    \/ StartsWith(p.name, IntStr(target) \o <<"_">>)
\* undo, lines 835-838: all matches, as <<team position, roster position>>
UndoMatches(ts, target) ==
    UNION { { <<i, j>> : j \in { k \in DOMAIN ts[i].players :
                                      UndoMatch(ts[i].players[k], target) } } :
            i \in DOMAIN ts }
\* A scan that stops at the last match instead of the first.
UndoFirst_Last(ts, target) ==
    CHOOSE m \in UndoMatches(ts, target) :
        \A n \in UndoMatches(ts, target) : m[1] > n[1] \/ (m[1] = n[1] /\ m[2] >= n[2])
\* the first one in iteration order
UndoFirst(ts, target) ==
    CHOOSE m \in UndoMatches(ts, target) :
        \A n \in UndoMatches(ts, target) : m[1] < n[1] \/ (m[1] = n[1] /\ m[2] <= n[2])
\* players.pop(i)
Pop(players, j) == SubSeq(players, 1, j - 1) \o SubSeq(players, j + 1, Len(players))
\* An undo that pops and reindexes without the refund.
UndoTeam_NoRefund(t, j) == [t EXCEPT !.players = Reindex(Pop(t.players, j))]
\* undo, lines 839-841: refund, pop, reindex
UndoTeam(t, j) == [t EXCEPT !.left = @ + t.players[j].prize,
                            !.players = Reindex(Pop(t.players, j))]

\* ---------- responses ----------
\* op names the handler that answered.
\* redirect(url_for("main")) and redirect(url_for("main", player=...))
Redirect(op, player) == [op |-> op, status |-> 302, body |-> "redirect_main", player |-> player]
\* redirect(url_for("admin"))
RedirectAdmin(op) == [op |-> op, status |-> 302, body |-> "redirect_admin", player |-> None]
\* an unhandled ValueError of int()
ServerError(op) == [op |-> op, status |-> 500, body |-> "error", player |-> None]
\* the "Not enough budget in <team>" page
NotEnoughPage == [op |-> "assign", status |-> 200, body |-> "not_enough", player |-> None]
\* the rendered board of /main, showing the player number or none
BoardPage(player) == [op |-> "main", status |-> 200, body |-> "board", player |-> player]

\* the rendered read-only board of /view, showing the player number or none
ViewPage(player) == [op |-> "view", status |-> 200, body |-> "view", player |-> player]
\* abort(401)
Unauthorized(op) == [op |-> op, status |-> 401, body |-> "unauthorized", player |-> None]
\* the NameError that ends the module-level code
ImportFailed == [op |-> "restart", status |-> 500, body |-> "name_error", player |-> None]

\* ---------- request threads ----------
Threads == {"t1", "t2"}
\* A thread between requests; r is the response it gave last.
Idle(r) == [pc |-> "idle", team |-> "", amount |-> 0, player |-> <<>>, num |-> 0,
            display |-> <<>>, idx |-> 0, tmp |-> 0, data |-> None, resp |-> r]
InFlight == { t \in Threads : thr[t].pc # "idle" }

\* ---------- startup (module level, lines 436-440) ----------
\* A serving process on a bucket without auction_state.json: the state that lines
\* 385-390 and 440 build once load_state is past its first line (team_state bound
\* and empty): the fresh state, saved, to which reconcile_team_state adds nothing.
Init ==
    /\ \E sheet \in TeamSheetReads :
         /\ TEAM_NAMES = load_team_names(sheet)
         /\ team_state = SetDefaultAll(FreshState(load_team_names(sheet)), load_team_names(sheet))
    /\ current_card = EmptyCard
    /\ df_players_cache = None
    /\ stored = Some(Payload(team_state, current_card))
    /\ resp = Redirect("login", None)
    /\ saved = TRUE
    /\ last = None
    /\ chain = None
    /\ thr = [t \in Threads |-> Idle(Redirect("login", None))]
    /\ serving = TRUE
    /\ refused = None
    /\ cleared = None

\* ---------- POST /assign (lines 811-827) ----------
\* An assign that creates the team it is given when the state lacks it.
assign_CreatesTeam(team, amount_raw, player_raw, df, put_ok) ==
    /\ serving
    /\ chain' = None
    /\ cleared' = None
    /\ last' = None
    /\ refused' = IF ~HasTeam(team_state, team) \/ player_raw = <<>>
                  THEN Some([team |-> team, player |-> player_raw])
                  ELSE None
    /\ UNCHANGED <<current_card, TEAM_NAMES, thr, serving, df_players_cache>>
    /\ IF ~IsIntText(amount_raw) \/ ~IsIntText(player_raw)
       THEN /\ resp' = ServerError("assign")
            /\ saved' = FALSE
            /\ UNCHANGED <<team_state, stored>>
       ELSE /\ team_state' = SetDefault(team_state, team)
            /\ stored' = StoredAfterSave(stored, team_state', current_card, put_ok)
            /\ saved' = TRUE
            /\ resp' = Redirect("assign", None)
\* df: what read_players_df finds if the name cache is empty; put_ok: put_object's outcome.
assign(team, amount_raw, player_raw, df, put_ok) ==
    /\ serving
    /\ chain' = None
    /\ cleared' = None
    /\ refused' = IF ~HasTeam(team_state, team) \/ player_raw = <<>>
                  THEN Some([team |-> team, player |-> player_raw])
                  ELSE None
    /\ UNCHANGED <<current_card, TEAM_NAMES, thr, serving>>
    /\ IF ~IsIntText(amount_raw)
       THEN /\ resp' = ServerError("assign")
            /\ last' = None
            /\ saved' = FALSE
            /\ UNCHANGED <<team_state, df_players_cache, stored>>
       ELSE IF ~HasTeam(team_state, team) \/ player_raw = <<>>
       THEN /\ resp' = Redirect("assign", None)
            /\ last' = None
            /\ saved' = FALSE
            /\ UNCHANGED <<team_state, df_players_cache, stored>>
       ELSE IF ~IsIntText(player_raw)
       THEN /\ resp' = ServerError("assign")
            /\ last' = None
            /\ saved' = FALSE
            /\ UNCHANGED <<team_state, df_players_cache, stored>>
       ELSE LET amount  == ParseInt(amount_raw)
                num     == ParseInt(player_raw)
                cache   == CacheAfterLookup(df_players_cache, df)
                display == DisplayName(num, PlayerName(cache, num))
                i       == TeamPos(team_state, team)
            IN  /\ df_players_cache' = cache
                /\ IF NotEnough(amount, team_state[i].left)
                   THEN /\ resp' = NotEnoughPage
                        /\ last' = None
                        /\ saved' = FALSE
                        /\ UNCHANGED <<team_state, stored>>
                   ELSE /\ TotalEntries(team_state) < MaxEntries
                        /\ team_state' = [team_state EXCEPT
                                            ![i] = AssignTeam(@, num, display, amount)]
                        /\ stored' = StoredAfterSave(stored, team_state', current_card, put_ok)
                        /\ saved' = TRUE
                        /\ resp' = Redirect("assign", Some(player_raw))
                        /\ last' = Some([team |-> team, player |-> num, amount |-> amount,
                                         pre |-> team_state])

\* ---------- POST /undo (lines 829-844) ----------
undo(player_raw, put_ok) ==
    LET raw == Strip(player_raw)
    IN  /\ serving
        /\ last' = None
        /\ refused' = None
        /\ cleared' = None
        /\ UNCHANGED <<current_card, TEAM_NAMES, df_players_cache, thr, serving>>
        /\ IF ~IsIntText(raw)
           THEN /\ resp' = Redirect("undo", None)
                /\ chain' = None
                /\ saved' = FALSE
                /\ UNCHANGED <<team_state, stored>>
           ELSE LET target == ParseInt(raw)
                IN  /\ chain' = IF last # None /\ The(last).player = target
                                THEN Some([assigned |-> The(last), mid |-> team_state])
                                ELSE None
                    /\ IF UndoMatches(team_state, target) # {}
                       THEN LET m == UndoFirst(team_state, target)
                            IN  /\ team_state' = [team_state EXCEPT ![m[1]] = UndoTeam(@, m[2])]
                                /\ stored' = StoredAfterSave(stored, team_state', current_card, put_ok)
                                /\ saved' = TRUE
                                /\ resp' = Redirect("undo", Some(IntStr(target)))
                       ELSE /\ resp' = Redirect("undo", Some(raw))
                            /\ saved' = FALSE
                            /\ UNCHANGED <<team_state, stored>>

\* ---------- images (find_image_key, sign_url) ----------
\* Extensions under which an image of the player can be signed (the bucket's
\* content), and whether the second sign_url of the found key succeeds.
ImageSets == { {".png", ".webp"} }
SignOk == {TRUE}
ImageKey(num, ext) == <<IMAGES_DIR, "/">> \o IntStr(num) \o <<ext>>
\* find_image_key: the first extension of IMAGE_EXTS that signs, or None
find_image_key(num, signable) ==
    LET hits == { i \in DOMAIN IMAGE_EXTS : IMAGE_EXTS[i] \in signable }
    IN  IF hits = {} THEN None
        ELSE Some(ImageKey(num, IMAGE_EXTS[CHOOSE i \in hits : \A j \in hits : i <= j]))

\* ---------- GET /main (lines 788-809): showPlayer ----------
\* main, line 796: the displayable range
Displayable(n) == 1 <= n /\ n <= MAX_IMAGE_NUM
\* A card that is shown only for a player who is on no roster.
ShownCard_SkipAssigned(n, player_name, key, url) ==
    IF \E i \in DOMAIN team_state : \E j \in DOMAIN team_state[i].players :
           team_state[i].players[j].player_num = n
    THEN current_card
    ELSE [player |-> Some(n), name |-> Some(player_name),
          image_key |-> IF url THEN key ELSE None]
\* main, line 803: current_card.update({"player", "name", "image_key"})
ShownCard(n, player_name, key, url) ==
    [player |-> Some(n), name |-> Some(player_name), image_key |-> IF url THEN key ELSE None]
\* signable, sign_ok: the image lookups' outcomes.
main(player_raw, signable, sign_ok, df, put_ok) ==
    LET raw == Strip(player_raw)
        shown == raw # <<>> /\ IsIntText(raw) /\ Displayable(ParseInt(raw))
    IN  /\ serving
        /\ last' = None
        /\ chain' = None
        /\ refused' = None
        /\ cleared' = None
        /\ UNCHANGED <<team_state, TEAM_NAMES, thr, serving>>
        /\ IF shown
           THEN LET n     == ParseInt(raw)
                    key   == find_image_key(n, signable)
                    url   == key # None /\ sign_ok
                    cache == CacheAfterLookup(df_players_cache, df)
                IN  /\ df_players_cache' = cache
                    /\ current_card' = ShownCard(n, PlayerName(cache, n), key, url)
                    /\ stored' = StoredAfterSave(stored, team_state, current_card', put_ok)
                    /\ saved' = TRUE
                    /\ resp' = BoardPage(Some(IntStr(n)))
           ELSE /\ resp' = BoardPage(None)
                /\ saved' = FALSE
                /\ UNCHANGED <<current_card, df_players_cache, stored>>

\* ---------- POST /admin/reset (lines 665-676, 419-433) ----------
\* A reset that restores the balances and keeps the rosters.
ResetTeams_KeepRosters(names) ==
    [ k \in DOMAIN names |->
        IF HasTeam(team_state, names[k])
        THEN [team_state[TeamPos(team_state, names[k])] EXCEPT !.left = BUDGET]
        ELSE FreshTeam(names[k]) ]
\* reset_auction_state, line 424
ResetTeams(names) == FreshState(names)
admin_reset(put_ok) ==
    /\ serving
    /\ last' = None
    /\ chain' = None
    /\ refused' = None
    /\ cleared' = Some([entries |-> TotalEntries(team_state), player |-> current_card.player])
    /\ team_state' = ResetTeams(TEAM_NAMES)
    /\ current_card' = EmptyCard
    /\ stored' = StoredAfterSave(stored, team_state', current_card', put_ok)
    /\ saved' = TRUE
    /\ resp' = RedirectAdmin("reset")
    /\ UNCHANGED <<TEAM_NAMES, df_players_cache, thr, serving>>

\* ---------- POST /upload_multi, /upload_zip (lines 678-753) ----------
\* A reconcile that keeps the listed teams only.
reconcile_OnlyListed(ts, new_team_names) ==
    [ k \in DOMAIN new_team_names |->
        IF HasTeam(ts, new_team_names[k]) THEN ts[TeamPos(ts, new_team_names[k])]
        ELSE FreshTeam(new_team_names[k]) ]
\* A reconcile that adds no team.
reconcile_AddsNothing(ts, new_team_names) == ts
\* reconcile_team_state, lines 408-409
reconcile_team_state(ts, new_team_names) == SetDefaultAll(ts, new_team_names)
\* sheet: the team sheet load_team_names finds after the files are stored.
upload(sheet, put_ok) ==
    /\ serving
    /\ last' = None
    /\ chain' = None
    /\ refused' = None
    /\ cleared' = None
    /\ df_players_cache' = None
    /\ TEAM_NAMES' = load_team_names(sheet)
    /\ team_state' = reconcile_team_state(team_state, TEAM_NAMES')
    /\ stored' = StoredAfterSave(stored, team_state', current_card, put_ok)
    /\ saved' = TRUE
    /\ resp' = RedirectAdmin("upload")
    /\ UNCHANGED <<current_card, thr, serving>>

\* ---------- GET /view (lines 846-874): the spectators' board ----------
\* Whether the request passes the token check (VIEW_TOKEN is unset by default: it does).
ViewTokenOk == {TRUE}
\* A view that writes the card it shows, as /main does.
view_Showing(player_raw, token_ok, signable, sign_ok, df) ==
    LET raw == Strip(player_raw)
        shown == raw # <<>> /\ IsIntText(raw) /\ Displayable(ParseInt(raw))
    IN  /\ serving
        /\ last' = None
        /\ chain' = None
        /\ refused' = None
        /\ cleared' = None
        /\ UNCHANGED <<team_state, TEAM_NAMES, thr, serving>>
        /\ IF token_ok /\ shown
           THEN LET n     == ParseInt(raw)
                    key   == find_image_key(n, signable)
                    cache == CacheAfterLookup(df_players_cache, df)
                IN  /\ df_players_cache' = cache
                    /\ current_card' = ShownCard(n, PlayerName(cache, n), key, key # None /\ sign_ok)
                    /\ stored' = StoredAfterSave(stored, team_state, current_card', TRUE)
                    /\ saved' = TRUE
                    /\ resp' = ViewPage(Some(IntStr(n)))
           ELSE /\ resp' = IF token_ok THEN ViewPage(None) ELSE Unauthorized("view")
                /\ saved' = FALSE
                /\ UNCHANGED <<current_card, df_players_cache, stored>>
\* signable, sign_ok: the image lookups' outcomes (they decide image_url only).
view(player_raw, token_ok, signable, sign_ok, df) ==
    LET raw == Strip(player_raw)
        shown == raw # <<>> /\ IsIntText(raw) /\ Displayable(ParseInt(raw))
    IN  /\ serving
        /\ last' = None
        /\ chain' = None
        /\ refused' = None
        /\ cleared' = None
        /\ saved' = FALSE
        /\ UNCHANGED <<team_state, current_card, TEAM_NAMES, stored, thr, serving>>
        /\ IF ~token_ok
           THEN /\ resp' = Unauthorized("view")
                /\ UNCHANGED df_players_cache
           ELSE IF shown
           THEN /\ df_players_cache' = CacheAfterLookup(df_players_cache, df)
                /\ resp' = ViewPage(Some(IntStr(ParseInt(raw))))
           ELSE IF current_card.player # None
           THEN \* lines 864-868: the card's player; its name is looked up only if the card has none
                /\ df_players_cache' =
                      IF current_card.name = None \/ The(current_card.name) = <<>>
                      THEN CacheAfterLookup(df_players_cache, df)
                      ELSE df_players_cache
                /\ resp' = ViewPage(Some(IntStr(The(current_card.player))))
           ELSE /\ resp' = ViewPage(None)
                /\ UNCHANGED df_players_cache

\* ---------- process start (module level, lines 436-440; load_state 379-404) ----------
\* Line 439 is the first binding of the global team_state: when load_state reads
\* the name at line 382 it is not bound.
BoundAtImport == FALSE
\* Outcomes of get_object(STATE_JSON): the document, no data (absent, or the
\* download failed), or bytes that json.loads rejects.
DocReads == {"ok", "none", "garbled"}
\* load_state(force_reload=False). bound: whether team_state is bound at line 382;
\* ts: its value if so; read: get_object's outcome for the stored document doc.
\* raised: the NameError of line 382; saves: the save_state of line 389.
load_state(bound, ts, card, names, read, doc) ==
    IF ~bound
    THEN [raised |-> TRUE, team_state |-> <<>>, card |-> card, saves |-> FALSE]
    ELSE IF ts # <<>>
    THEN [raised |-> FALSE, team_state |-> ts, card |-> card, saves |-> FALSE]
    ELSE IF read = "none" \/ doc = None
    THEN [raised |-> FALSE, team_state |-> FreshState(names), card |-> card, saves |-> TRUE]
    ELSE IF read = "garbled"
    THEN [raised |-> FALSE, team_state |-> FreshState(names), card |-> card, saves |-> FALSE]
    ELSE [raised |-> FALSE, team_state |-> SetDefaultAll(The(doc).team_state, names),
          card |-> The(doc).current_card, saves |-> FALSE]

\* The process is started again: lines 437-440 run in a new interpreter.
restart(sheet, read, put_ok) ==
    LET names == load_team_names(sheet)
        out   == load_state(BoundAtImport, <<>>, EmptyCard, names, read, stored)
    IN  /\ last' = None
        /\ chain' = None
        /\ refused' = None
        /\ cleared' = None
        /\ df_players_cache' = None
        /\ TEAM_NAMES' = names
        /\ current_card' = out.card
        /\ UNCHANGED thr
        /\ IF out.raised
           THEN /\ serving' = FALSE
                /\ team_state' = <<>>
                /\ saved' = FALSE
                /\ resp' = ImportFailed
                /\ UNCHANGED stored
           ELSE /\ serving' = TRUE
                /\ team_state' = reconcile_team_state(out.team_state, names)
                /\ stored' = StoredAfterSave(
                                StoredAfterSave(stored, out.team_state, out.card,
                                                out.saves /\ put_ok),
                                team_state', out.card, put_ok)
                /\ saved' = TRUE
                /\ resp' = Redirect("restart", None)

\* ---------- requests served one at a time ----------
\* put_object succeeds.
PutOk == {TRUE}

Next ==
    \/ \E team \in TeamInputs, amount_raw \in AmountInputs, player_raw \in PlayerInputs,
          df \in PlayersReads, put_ok \in PutOk :
          assign(team, amount_raw, player_raw, df, put_ok)
    \/ \E player_raw \in PlayerInputs, put_ok \in PutOk : undo(player_raw, put_ok)
    \/ \E player_raw \in PlayerInputs, signable \in ImageSets, sign_ok \in SignOk,
          df \in PlayersReads, put_ok \in PutOk :
          main(player_raw, signable, sign_ok, df, put_ok)
    \/ \E put_ok \in PutOk : admin_reset(put_ok)
    \/ \E sheet \in TeamSheetReads, put_ok \in PutOk : upload(sheet, put_ok)
    \/ \E player_raw \in PlayerInputs, token_ok \in ViewTokenOk, signable \in ImageSets,
          sign_ok \in SignOk, df \in PlayersReads :
          view(player_raw, token_ok, signable, sign_ok, df)
    \/ \E sheet \in TeamSheetReads, read \in DocReads, put_ok \in PutOk :
          restart(sheet, read, put_ok)

Spec == Init /\ [][Next]_vars

\* ---------- POST /assign statement by statement ----------
\* Form field "amount" of the concurrent requests: prices within the precondition.
ConcAmountInputs == { <<"0">>, <<"1", "0", "0", "0", "0">> }
Seq_unchanged == UNCHANGED <<resp, saved, last, chain, serving, refused, cleared>>

\* lines 814-820: the form fields, the team lookup, the display name
a_start(t, team, amount_raw, player_raw, df) ==
    /\ thr[t].pc = "idle"
    /\ TotalEntries(team_state) + Cardinality(InFlight) < MaxEntries
    /\ Seq_unchanged
    /\ UNCHANGED <<team_state, current_card, TEAM_NAMES, stored>>
    /\ IF ~IsIntText(amount_raw)
       THEN /\ thr' = [thr EXCEPT ![t] = Idle(ServerError("assign"))]
            /\ UNCHANGED df_players_cache
       ELSE IF ~HasTeam(team_state, team) \/ player_raw = <<>>
       THEN /\ thr' = [thr EXCEPT ![t] = Idle(Redirect("assign", None))]
            /\ UNCHANGED df_players_cache
       ELSE IF ~IsIntText(player_raw)
       THEN /\ thr' = [thr EXCEPT ![t] = Idle(ServerError("assign"))]
            /\ UNCHANGED df_players_cache
       ELSE LET num   == ParseInt(player_raw)
                cache == CacheAfterLookup(df_players_cache, df)
            IN  /\ df_players_cache' = cache
                /\ thr' = [thr EXCEPT ![t] =
                             [pc |-> "check", team |-> team, amount |-> ParseInt(amount_raw),
                              player |-> player_raw, num |-> num,
                              display |-> DisplayName(num, PlayerName(cache, num)),
                              idx |-> 0, tmp |-> 0, data |-> None, resp |-> thr[t].resp]]

\* line 821: if amount > team_state[team]["left"]
a_check(t) ==
    /\ thr[t].pc = "check"
    /\ Seq_unchanged
    /\ UNCHANGED <<team_state, current_card, TEAM_NAMES, df_players_cache, stored>>
    /\ IF NotEnough(thr[t].amount, team_state[TeamPos(team_state, thr[t].team)].left)
       THEN thr' = [thr EXCEPT ![t] = Idle(NotEnoughPage)]
       ELSE thr' = [thr EXCEPT ![t].pc = "idx"]

\* line 823: idx = len(team_state[team]["players"]) + 1
a_idx(t) ==
    /\ thr[t].pc = "idx"
    /\ Seq_unchanged
    /\ UNCHANGED <<team_state, current_card, TEAM_NAMES, df_players_cache, stored>>
    /\ thr' = [thr EXCEPT ![t].pc = "append",
                          ![t].idx = Len(team_state[TeamPos(team_state, thr[t].team)].players) + 1]

\* line 824: team_state[team]["players"].append({...})
a_append(t) ==
    /\ thr[t].pc = "append"
    /\ Seq_unchanged
    /\ UNCHANGED <<current_card, TEAM_NAMES, df_players_cache, stored>>
    /\ team_state' = [team_state EXCEPT ![TeamPos(team_state, thr[t].team)].players =
                        Append(@, [idx |-> thr[t].idx, name |-> thr[t].display,
                                   prize |-> thr[t].amount, player_num |-> thr[t].num])]
    /\ thr' = [thr EXCEPT ![t].pc = "load"]

\* line 825, team_state[team]["left"] -= amount: the read of left
a_load(t) ==
    /\ thr[t].pc = "load"
    /\ Seq_unchanged
    /\ UNCHANGED <<team_state, current_card, TEAM_NAMES, df_players_cache, stored>>
    /\ thr' = [thr EXCEPT ![t].pc = "store",
                          ![t].tmp = team_state[TeamPos(team_state, thr[t].team)].left]

\* line 825: the write of left - amount
a_store(t) ==
    /\ thr[t].pc = "store"
    /\ Seq_unchanged
    /\ UNCHANGED <<current_card, TEAM_NAMES, df_players_cache, stored>>
    /\ team_state' = [team_state EXCEPT ![TeamPos(team_state, thr[t].team)].left =
                        thr[t].tmp - thr[t].amount]
    /\ thr' = [thr EXCEPT ![t].pc = "save"]

\* line 826, save_state lines 365-371: the payload of the state as it is now, serialized
a_dump(t) ==
    /\ thr[t].pc = "save"
    /\ Seq_unchanged
    /\ UNCHANGED <<team_state, current_card, TEAM_NAMES, df_players_cache, stored>>
    /\ thr' = [thr EXCEPT ![t].pc = "put",
                          ![t].data = Some(Payload(team_state, current_card))]

\* save_state line 372: put_object of the serialized payload; line 827: the redirect
a_put(t, put_ok) ==
    /\ thr[t].pc = "put"
    /\ Seq_unchanged
    /\ UNCHANGED <<team_state, current_card, TEAM_NAMES, df_players_cache>>
    /\ stored' = StoredAfterSave(stored, The(thr[t].data).team_state,
                                 The(thr[t].data).current_card, put_ok)
    /\ thr' = [thr EXCEPT ![t] = Idle(Redirect("assign", Some(thr[t].player)))]

NextConc ==
    \E t \in Threads :
        \/ \E team \in TeamInputs, amount_raw \in ConcAmountInputs, player_raw \in PlayerInputs,
              df \in PlayersReads :
              a_start(t, team, amount_raw, player_raw, df)
        \/ a_check(t)
        \/ a_idx(t)
        \/ a_append(t)
        \/ a_load(t)
        \/ a_store(t)
        \/ a_dump(t)
        \/ \E put_ok \in PutOk : a_put(t, put_ok)

\* Concurrent assign requests, no lock between them.
SpecConc == Init /\ [][NextConc]_vars

\* ---------- requests with any player number ----------
\* Form field "player": non-numeric, below the range, inside it, above it.
AnyPlayerInputs == { <<"x">>, <<"0">>, <<"1">>, <<"1", "2", "1">> }

NextAnyPlayer ==
    \/ \E team \in TeamInputs, amount_raw \in ConcAmountInputs, player_raw \in AnyPlayerInputs,
          df \in PlayersReads, put_ok \in PutOk :
          assign(team, amount_raw, player_raw, df, put_ok)
    \/ \E player_raw \in AnyPlayerInputs, signable \in ImageSets, sign_ok \in SignOk,
          df \in PlayersReads, put_ok \in PutOk :
          main(player_raw, signable, sign_ok, df, put_ok)

SpecAnyPlayer == Init /\ [][NextAnyPlayer]_vars

\* ---------- requests while the storage may refuse a write ----------
\* put_object's outcomes.
PutOutcomes == {TRUE, FALSE}
\* Form field "player" of these requests.
OnePlayerInput == { <<"1">> }

NextFailing ==
    \/ \E team \in TeamInputs, amount_raw \in ConcAmountInputs, player_raw \in OnePlayerInput,
          df \in PlayersReads, put_ok \in PutOutcomes :
          assign(team, amount_raw, player_raw, df, put_ok)
    \/ \E player_raw \in OnePlayerInput, put_ok \in PutOutcomes : undo(player_raw, put_ok)
    \/ \E player_raw \in OnePlayerInput, signable \in ImageSets, sign_ok \in SignOk,
          df \in PlayersReads, put_ok \in PutOutcomes :
          main(player_raw, signable, sign_ok, df, put_ok)
    \/ \E put_ok \in PutOutcomes : admin_reset(put_ok)
    \/ \E sheet \in TeamSheetReads, put_ok \in PutOutcomes : upload(sheet, put_ok)

SpecFailing == Init /\ [][NextFailing]_vars

\* ---------- process starts on a bucket with or without the document ----------
\* A serving process whose saves of lines 389 and 411 did not reach the bucket:
\* the fresh state in memory, no auction_state.json in storage.
InitNoDocument ==
    /\ \E sheet \in TeamSheetReads :
         /\ TEAM_NAMES = load_team_names(sheet)
         /\ team_state = SetDefaultAll(FreshState(load_team_names(sheet)), load_team_names(sheet))
    /\ current_card = EmptyCard
    /\ df_players_cache = None
    /\ stored = None
    /\ resp = Redirect("login", None)
    /\ saved = TRUE
    /\ last = None
    /\ chain = None
    /\ thr = [t \in Threads |-> Idle(Redirect("login", None))]
    /\ serving = TRUE
    /\ refused = None
    /\ cleared = None

NextStart ==
    \/ \E team \in TeamInputs, amount_raw \in ConcAmountInputs, player_raw \in OnePlayerInput,
          df \in PlayersReads, put_ok \in PutOutcomes :
          assign(team, amount_raw, player_raw, df, put_ok)
    \/ \E player_raw \in OnePlayerInput, signable \in ImageSets, sign_ok \in SignOk,
          df \in PlayersReads, put_ok \in PutOutcomes :
          main(player_raw, signable, sign_ok, df, put_ok)
    \/ \E sheet \in TeamSheetReads, read \in DocReads, put_ok \in PutOutcomes :
          restart(sheet, read, put_ok)

SpecStart == InitNoDocument /\ [][NextStart]_vars

\* ---------- requests while the players sheet changes or is lost ----------
\* What read_players_df may return: None (no readable sheet), the sheet, or the
\* sheet a later upload has put in its place.
NameTables == { None, Some(PlayersSheet), Some(PlayersSheetRenamed) }
\* Form field "player" of these requests.
TwoPlayerInputs == { <<"1">>, <<"1", "2">> }
\* Form field "amount" of these requests.
OneAmountInput == { <<"0">> }

NextNames ==
    \/ \E team \in TeamInputs, amount_raw \in OneAmountInput, player_raw \in TwoPlayerInputs,
          df \in NameTables, put_ok \in PutOk :
          assign(team, amount_raw, player_raw, df, put_ok)
    \/ \E player_raw \in TwoPlayerInputs, put_ok \in PutOk : undo(player_raw, put_ok)
    \/ \E player_raw \in OnePlayerInput, signable \in ImageSets, sign_ok \in SignOk,
          df \in NameTables, put_ok \in PutOk :
          main(player_raw, signable, sign_ok, df, put_ok)
    \/ \E put_ok \in PutOk : admin_reset(put_ok)
    \/ \E sheet \in TeamSheetReads, put_ok \in PutOk : upload(sheet, put_ok)

SpecNames == Init /\ [][NextNames]_vars

\* ====================== properties ======================
Teams == DOMAIN team_state
Roster(i) == team_state[i].players
\* Positions <<team, entry>> of the roster entries of player num in ts.
EntriesOf(ts, num) ==
    UNION { { <<i, j>> : j \in { k \in DOMAIN ts[i].players : ts[i].players[k].player_num = num } } :
            i \in DOMAIN ts }
\* The form fields that parse as a number, and their values.
NumericAmounts == { a \in AmountInputs : IsIntText(a) }
NumericPlayers == { p \in PlayerInputs : IsIntText(Strip(p)) }
IntOf == [ raw \in NumericAmounts \cup NumericPlayers |-> ParseInt(raw) ]
LeftOf(ts, team) == ts[TeamPos(ts, team)].left

\* C1 Budget conservation: in every reachable state, for every team,
\* balance + sum of priceSpent over its roster = initialBudget.
C1_BudgetConservation ==
    \A i \in Teams : team_state[i].left + SumPrize(Roster(i)) = BUDGET

\* An undo has just refunded one entry and the team still holds a priced one.
C1_Witness ==
    /\ resp.op = "undo" /\ saved
    /\ \E i \in Teams : Roster(i) # <<>> /\ SumPrize(Roster(i)) # 0

\* C2 Balance range: in every reachable state, for every team,
\* 0 <= balance <= initialBudget, whatever integer amount assign is given.
C2_BalanceRange ==
    \A i \in Teams : 0 <= team_state[i].left /\ team_state[i].left <= BUDGET

\* C3 InsufficientBudget: an assign to an existing team whose price exceeds the
\* team's balance is answered by the rejection and leaves the teams, the card
\* and the stored document as they were; a price equal to the balance is accepted.
C3_InsufficientBudget ==
    [][ resp'.op = "assign" =>
        \A team \in TeamKeys(team_state) \cap TeamInputs :
        \A amount_raw \in { a \in NumericAmounts : IntOf[a] >= LeftOf(team_state, team) } :
        \A player_raw \in NumericPlayers, df \in PlayersReads, put_ok \in PutOk :
          assign(team, amount_raw, player_raw, df, put_ok)
          => LET i == TeamPos(team_state, team)
             IN  /\ IntOf[amount_raw] > team_state[i].left =>
                       /\ resp' = NotEnoughPage
                       /\ team_state' = team_state
                       /\ current_card' = current_card
                       /\ stored' = stored
                 /\ IntOf[amount_raw] = team_state[i].left =>
                       /\ resp' = Redirect("assign", Some(player_raw))
                       /\ Len(team_state'[i].players) = Len(team_state[i].players) + 1
        ]_vars

\* An assign was just rejected for its price, with a roster entry in place.
C3_Witness == resp = NotEnoughPage /\ TotalEntries(team_state) > 0

\* C5 Sequence contiguity: the i-th roster entry of every team has idx = i.
C5_SequenceContiguity ==
    \A i \in Teams : \A j \in DOMAIN Roster(i) : Roster(i)[j].idx = j

\* An undo removed the first of two entries of a team: the entry left behind
\* was second before it and is first now.
C5_Witness ==
    /\ chain # None
    /\ \E i \in Teams :
         /\ Len(The(chain).mid[i].players) = 2
         /\ Len(Roster(i)) = 1
         /\ The(chain).mid[i].players[1].prize # The(chain).mid[i].players[2].prize
         /\ Roster(i)[1].prize = The(chain).mid[i].players[2].prize

\* ---------- undo after assign ----------
\* The accepted assign that the undo just served followed, and the state between them.
Assigned == The(chain).assigned
Mid == The(chain).mid
\* Position of the assign's team (assign and undo keep the teams' positions).
AssignedPos == TeamPos(Assigned.pre, Assigned.team)
Count(ts, num) == Cardinality(EntriesOf(ts, num))
\* The first entry of player num in scan order: teams in insertion order, each
\* roster from its start.
FirstEntry(ts, num) ==
    CHOOSE m \in EntriesOf(ts, num) :
        \A n \in EntriesOf(ts, num) : m[1] < n[1] \/ (m[1] = n[1] /\ m[2] <= n[2])
\* Before the assign, its player had no entry on its team or on a team before it.
NoEarlierEntry ==
    \A e \in EntriesOf(Assigned.pre, Assigned.player) : e[1] > AssignedPos
SameEntry(a, b) == a.player_num = b.player_num /\ a.name = b.name /\ a.prize = b.prize
\* Every price on the rosters meets assign's precondition, price >= 0.
PricesInRange(ts) ==
    \A i \in DOMAIN ts : \A j \in DOMAIN ts[i].players : ts[i].players[j].prize >= 0

\* C6 (as claimed) Undo is the inverse of assign: from every reachable state, an
\* accepted assign(T, p, price) followed at once by undo(p) restores T's balance
\* and removes exactly one roster entry of p (all prices being >= 0).
C6_UndoInverseAlways ==
    (chain # None /\ PricesInRange(Mid)) =>
        /\ team_state[AssignedPos].left = Assigned.pre[AssignedPos].left
        /\ Count(team_state, Assigned.player) = Count(Mid, Assigned.player) - 1

\* C6 (amended) The same, for the states in which p has no roster entry on T or
\* on a team before T in insertion order when the assign is made.
C6_UndoInverse ==
    (chain # None /\ NoEarlierEntry) =>
        /\ team_state[AssignedPos].left = Assigned.pre[AssignedPos].left
        /\ Count(team_state, Assigned.player) = Count(Mid, Assigned.player) - 1
        /\ TotalEntries(team_state) = TotalEntries(Mid) - 1

\* An assign with a price that moves the balance, then the undo of its player.
C6_Witness ==
    /\ chain # None /\ NoEarlierEntry
    /\ Assigned.amount # 0
    /\ TotalEntries(Assigned.pre) > 0

\* C7 Undo is first-match-wins: undo(p) with p on some roster removes the first
\* entry of p in scan order and no other, refunds that entry's price to its
\* team, keeps the team's other entries in order and leaves the other teams alone.
C7_FirstMatchWins ==
    [][ resp'.op = "undo" =>
        \A player_raw \in { r \in NumericPlayers : EntriesOf(team_state, IntOf[r]) # {} },
           put_ok \in PutOk :
          undo(player_raw, put_ok)
          => LET f   == FirstEntry(team_state, IntOf[player_raw])
                 i   == f[1]
                 j   == f[2]
                 old == team_state[i].players
                 new == team_state'[i].players
             IN  /\ Len(team_state') = Len(team_state)
                 /\ \A k \in DOMAIN team_state \ {i} : team_state'[k] = team_state[k]
                 /\ team_state'[i].name = team_state[i].name
                 /\ team_state'[i].left = team_state[i].left + old[j].prize
                 /\ Len(new) = Len(old) - 1
                 /\ \A k \in 1..(j - 1) : SameEntry(new[k], old[k])
                 /\ \A k \in (j + 1)..Len(old) : SameEntry(new[k - 1], old[k])
                 /\ Count(team_state', IntOf[player_raw]) = Count(team_state, IntOf[player_raw]) - 1
        ]_vars

\* The player was on the first and on the second team; the undo took the first
\* team's entry and left the second team's.
C7_Witness ==
    /\ chain # None /\ resp.op = "undo"
    /\ \E e \in EntriesOf(Mid, Assigned.player) : e[1] = 1
    /\ \E e \in EntriesOf(Mid, Assigned.player) : e[1] = 2
    /\ EntriesOf(team_state, Assigned.player) # {}
    /\ \A e \in EntriesOf(team_state, Assigned.player) : e[1] = 2

\* C8 (as claimed) undo(p) reverses the most recent assignment of p: with more
\* than one entry of p, the undo that follows an accepted assign of p removes the
\* entry that assign created, so the teams are as before the assign (all prices
\* being >= 0).
C8_UndoMostRecentAlways ==
    (chain # None /\ PricesInRange(Mid) /\ Count(Mid, Assigned.player) > 1)
        => team_state = Assigned.pre

\* C8 (amended) undo(p) removes the first entry of p in scan order; it is the
\* entry of the most recent assign of p when no other entry of p precedes it in
\* scan order (p on no earlier team and not earlier on the same team).
C8_UndoMostRecent ==
    (chain # None /\ NoEarlierEntry) =>
        /\ team_state = Assigned.pre
        /\ FirstEntry(Mid, Assigned.player) = <<AssignedPos, Len(Mid[AssignedPos].players)>>

\* The player has an older entry on a later team and the undo removed the newer.
C8_Witness ==
    /\ chain # None /\ NoEarlierEntry
    /\ Count(Mid, Assigned.player) > 1
    /\ team_state = Assigned.pre

\* C9 Undo with no match: undo(p) with no roster entry of p on any team (or with
\* a player field that is no number) answers with the redirect, no error, and
\* leaves the teams, the card and the stored document unchanged.
C9_UndoNoMatch ==
    [][ resp'.op = "undo" =>
        \A player_raw \in { r \in PlayerInputs :
                              r \in NumericPlayers => EntriesOf(team_state, IntOf[r]) = {} },
           put_ok \in PutOk :
          undo(player_raw, put_ok)
          => /\ resp'.status = 302
             /\ team_state' = team_state
             /\ current_card' = current_card
             /\ stored' = stored
        ]_vars

\* An undo of player 1 found nothing to undo while another player is on a roster.
C9_Witness ==
    /\ resp = Redirect("undo", Some(<<"1">>)) /\ ~saved
    /\ EntriesOf(team_state, 1) = {}
    /\ TotalEntries(team_state) > 0

\* C10 Reconciliation is additive-only: an upload's reconcile leaves every team
\* already present as it is and where it is, adds each missing name of the list
\* as a fresh team, and changes nothing when every name is already present.
C10_ReconcileAdditive ==
    [][ resp'.op = "upload" =>
        /\ Len(team_state') >= Len(team_state)
        /\ \A i \in DOMAIN team_state : team_state'[i] = team_state[i]
        /\ \A i \in DOMAIN team_state' \ DOMAIN team_state :
             /\ team_state'[i] = FreshTeam(team_state'[i].name)
             /\ \E k \in DOMAIN TEAM_NAMES' : TEAM_NAMES'[k] = team_state'[i].name
        /\ \A k \in DOMAIN TEAM_NAMES' : HasTeam(team_state', TEAM_NAMES'[k])
        /\ Cardinality(TeamKeys(team_state')) = Len(team_state')
        /\ (\A k \in DOMAIN TEAM_NAMES' : HasTeam(team_state, TEAM_NAMES'[k]))
             => team_state' = team_state
        ]_vars

\* An upload whose list lacks team A, which keeps its roster.
C10_Witness ==
    /\ resp = RedirectAdmin("upload")
    /\ TEAM_NAMES = <<"B">>
    /\ HasTeam(team_state, "A")
    /\ team_state[TeamPos(team_state, "A")].players # <<>>

\* C4 No overspend under concurrency: once the concurrent assigns (prices >= 0)
\* have completed, no team's balance is below 0 and the prices accepted for a
\* team sum to at most initialBudget.
C4_NoOverspend ==
    InFlight = {} =>
        \A i \in Teams : team_state[i].left >= 0 /\ SumPrize(Roster(i)) <= BUDGET

\* C11 Reset totality: right after a reset every team of the state has the
\* initial budget and an empty roster, and the card has no player, name or image.
C11_ResetTotality ==
    resp.op = "reset" =>
        /\ \A i \in Teams : team_state[i].left = BUDGET /\ Roster(i) = <<>>
        /\ current_card.player = None
        /\ current_card.name = None
        /\ current_card.image_key = None

\* The reset wiped rosters with two entries and a card that showed a player.
C11_Witness ==
    /\ resp.op = "reset" /\ cleared # None
    /\ The(cleared).entries = 2
    /\ The(cleared).player # None

\* The requests that the claims call operations of the engine.
EngineOps == {"assign", "undo", "main", "upload", "reset"}

\* C12 Teams are never deleted: no assign, undo, showPlayer, upload (reconcile)
\* or reset removes a team name from the state.
C12_TeamsNeverDeleted ==
    [][ resp'.op \in EngineOps => TeamKeys(team_state) \subseteq TeamKeys(team_state') ]_vars

\* C13 UnknownTeam: an assign whose team field is no key of the state changes
\* nothing: no team appears, no balance or roster changes, the card and the stored
\* document stay.
C13_UnknownTeam ==
    [][ (resp'.op = "assign" /\ refused' # None /\ ~HasTeam(team_state, The(refused').team)) =>
           /\ team_state' = team_state
           /\ current_card' = current_card
           /\ stored' = stored
      ]_vars

\* An assign named team A with a player number while the state holds only B,
\* with a roster entry and a shown card in place.
C13_Witness ==
    /\ resp = Redirect("assign", None) /\ refused # None
    /\ The(refused).team = "A" /\ The(refused).player = <<"1">>
    /\ ~HasTeam(team_state, "A")
    /\ TotalEntries(team_state) > 0
    /\ current_card.player # None

\* C14 InvalidPlayerNumber: assign accepts, and showPlayer shows, only player
\* numbers in 1..MAX_IMAGE_NUM; any other number leaves rosters and card alone.
C14_InvalidPlayerNumber ==
    /\ last # None => Displayable(The(last).player)
    /\ \A i \in Teams : \A j \in DOMAIN Roster(i) : Displayable(Roster(i)[j].player_num)
    /\ current_card.player # None => Displayable(The(current_card.player))

\* The request served last called save_state and the document in storage is not
\* the state it saved: the write failed.
WriteFailed == saved /\ stored # Some(Payload(team_state, current_card))

\* C15 Persistence failure is surfaced: a request whose storage write failed
\* does not answer as if it had completed.
C15_FailureSurfaced == WriteFailed => resp.status = 500

\* C16 A failed assign or undo leaves the state unchanged: when the save of an
\* assign or undo fails, balances and rosters are as before the request.
C16_FailedLeavesState ==
    [][ (resp'.op \in {"assign", "undo"} /\ saved'
         /\ stored' # Some(Payload(team_state', current_card')))
        => team_state' = team_state ]_vars

\* C17 Initialization never recreates existing state: a process started while a
\* document is stored has the document's teams, balances and rosters, and the
\* document still holds them.
C17_InitKeepsDocument ==
    [][ (resp'.op = "restart" /\ stored # None) =>
           /\ stored' # None
           /\ \A i \in DOMAIN The(stored).team_state :
                /\ i \in DOMAIN team_state'
                /\ team_state'[i] = The(stored).team_state[i]
                /\ i \in DOMAIN The(stored').team_state
                /\ The(stored').team_state[i] = The(stored).team_state[i]
      ]_vars

\* C18 Spectator reads never mutate: a request to /view leaves balances, rosters,
\* the card and the stored document as they are.
C18_ViewReadOnly ==
    [][ resp'.op = "view" =>
           /\ team_state' = team_state
           /\ current_card' = current_card
           /\ stored' = stored
      ]_vars

\* /view was asked for player 12 while the card shows player 1 and a roster
\* holds an entry.
C18_Witness ==
    /\ resp = ViewPage(Some(<<"1", "2">>))
    /\ current_card.player = Some(1)
    /\ TotalEntries(team_state) > 0

\* C19 showPlayer(n), n in 1..MAX_IMAGE_NUM, sets the card's player to n whether
\* or not n is on a roster, leaves balances and rosters alone, and a second
\* showPlayer(n) with the same name and image results changes nothing more.
C19_ShowPlayer ==
    [][ resp'.op = "main" =>
        \A player_raw \in { r \in NumericPlayers : Displayable(IntOf[r]) },
           signable \in ImageSets, sign_ok \in SignOk, df \in PlayersReads, put_ok \in PutOk :
          main(player_raw, signable, sign_ok, df, put_ok)
          => LET n     == IntOf[player_raw]
                 key   == find_image_key(n, signable)
                 cache == CacheAfterLookup(df_players_cache', df)
                 again == ShownCard(n, PlayerName(cache, n), key, key # None /\ sign_ok)
             IN  /\ current_card'.player = Some(n)
                 /\ team_state' = team_state
                 /\ again = current_card'
                 /\ cache = df_players_cache'
                 /\ StoredAfterSave(stored', team_state', again, put_ok) = stored'
      ]_vars

\* Player 1 is shown while on a roster, and the card shows an image and a name.
C19_Witness ==
    /\ resp = BoardPage(Some(<<"1">>))
    /\ current_card.player = Some(1)
    /\ current_card.image_key # None
    /\ EntriesOf(team_state, 1) # {}

\* C20 State survives a restart: when every save succeeded (the document holds
\* the state), the process started next has the same balances, rosters and card.
C20_SurvivesRestart ==
    [][ (resp'.op = "restart" /\ serving /\ stored = Some(Payload(team_state, current_card))) =>
           /\ team_state' = team_state
           /\ current_card' = current_card
      ]_vars

\* C21 Fresh initialization: a process started while no document is stored
\* serves with exactly the named teams, each at the initial budget with an empty
\* roster, and an empty card, and has stored that state.
C21_FreshInit ==
    [][ (resp'.op = "restart" /\ stored = None) =>
           /\ serving'
           /\ team_state' = FreshState(TEAM_NAMES')
           /\ current_card' = EmptyCard
           /\ stored' = Some(Payload(team_state', current_card'))
      ]_vars

\* C22 Mutating operations are serialized: once the concurrent requests have
\* completed, every team has balance + sum of prices = initialBudget and the
\* i-th entry of its roster has idx = i.
C22_Serialized ==
    InFlight = {} =>
        \A i \in Teams :
            /\ team_state[i].left + SumPrize(Roster(i)) = BUDGET
            /\ \A j \in DOMAIN Roster(i) : Roster(i)[j].idx = j

\* C23 Durable state converges under concurrency: once the concurrent requests
\* have completed (their writes succeeding), the stored document holds the
\* team_state and current_card that are in memory.
C23_DurableConverges ==
    InFlight = {} => stored = Some(Payload(team_state, current_card))

\* C24 No terminal state: in every state (short of the model's bound on roster
\* entries), for every team T of the state and every player number p, an assign
\* of p to T at a price from 0 up to T's balance can be served and is accepted; in
\* particular price 0 at balance 0.
C24_NoTerminalState ==
    TotalEntries(team_state) < MaxEntries =>
        \A team \in TeamKeys(team_state) \cap TeamInputs :
        \A amount_raw \in { a \in NumericAmounts :
                              0 <= IntOf[a] /\ IntOf[a] <= LeftOf(team_state, team) } :
        \A player_raw \in NumericPlayers :
            ENABLED ( \E df \in PlayersReads, put_ok \in PutOk :
                        /\ assign(team, amount_raw, player_raw, df, put_ok)
                        /\ resp' = Redirect("assign", Some(player_raw))
                        /\ Len(team_state'[TeamPos(team_state, team)].players)
                             = Len(team_state[TeamPos(team_state, team)].players) + 1 )

\* A team whose balance was 0 has just been assigned a player at price 0.
C24_Witness ==
    /\ last # None
    /\ The(last).amount = 0
    /\ LeftOf(The(last).pre, The(last).team) = 0
    /\ LeftOf(team_state, The(last).team) = 0

\* The entries of a roster without their idx.
Triples(players) ==
    [ j \in DOMAIN players |-> <<players[j].player_num, players[j].name, players[j].prize>> ]
RemoveAt(s, k) == SubSeq(s, 1, k - 1) \o SubSeq(s, k + 1, Len(s))

\* C25 Roster entries are immutable after insertion: no assign, undo, showPlayer
\* or upload (which reconciles the teams and drops the name cache) changes the
\* player number, display name or price of an entry that stays on its roster,
\* whatever the name table has become.  A step leaves each roster's entries as
\* they are, or (assign) appends one entry whose display name is
\* "<number>_<name resolved at that time>", or (undo) removes one entry.
C25_EntriesImmutable ==
    [][ resp'.op \in {"assign", "undo", "main", "upload"} =>
          \A i \in Teams :
              /\ i \in DOMAIN team_state'
              /\ team_state'[i].name = team_state[i].name
              /\ LET old == Triples(Roster(i))
                     new == Triples(team_state'[i].players)
                 IN  \/ new = old
                     \/ /\ resp'.op = "assign"
                        /\ Len(new) = Len(old) + 1
                        /\ SubSeq(new, 1, Len(old)) = old
                        /\ new[Len(new)][2] =
                              DisplayName(new[Len(new)][1],
                                          PlayerName(df_players_cache', new[Len(new)][1]))
                     \/ /\ resp'.op = "undo"
                        /\ \E k \in DOMAIN old : new = RemoveAt(old, k)
      ]_vars

\* A roster still holds player 1 under the name it had when assigned, while the
\* name table now in the cache gives player 1 another name.
C25_Witness ==
    /\ df_players_cache # None
    /\ resp.op \in {"assign", "main"}
    /\ \E i \in Teams : \E j \in DOMAIN Roster(i) :
          /\ Roster(i)[j].player_num = 1
          /\ Roster(i)[j].name = DisplayName(1, PlayerName(Some(PlayersSheet), 1))
          /\ Roster(i)[j].name # DisplayName(1, PlayerName(df_players_cache, 1))

\* C26 A successful assign(T, p, price) changes only team T: it appends exactly
\* one entry with idx = old length + 1, player_num = p and prize = price behind
\* the earlier entries, which stay as they are and in their order, lowers T's
\* balance by exactly price, and leaves every other team and the current card
\* unchanged; also when p already has an entry on T or on another team.
C26_AssignFrame ==
    [][ (resp'.op = "assign" /\ last' # None) =>
          LET a == The(last')
              i == TeamPos(team_state, a.team)
              n == Len(Roster(i))
          IN  /\ DOMAIN team_state' = DOMAIN team_state
              /\ team_state'[i].name = a.team
              /\ Len(team_state'[i].players) = n + 1
              /\ SubSeq(team_state'[i].players, 1, n) = Roster(i)
              /\ team_state'[i].players[n + 1].idx = n + 1
              /\ team_state'[i].players[n + 1].player_num = a.player
              /\ team_state'[i].players[n + 1].prize = a.amount
              /\ team_state'[i].left = team_state[i].left - a.amount
              /\ \A k \in Teams \ {i} : team_state'[k] = team_state[k]
              /\ current_card' = current_card
      ]_vars

\* An assign at a price above 0 has been accepted for a player who already had
\* an entry on another team, which holds it still.
C26_Witness ==
    /\ resp.op = "assign"
    /\ last # None
    /\ The(last).amount > 0
    /\ \E e \in EntriesOf(The(last).pre, The(last).player) :
          /\ e[1] # TeamPos(team_state, The(last).team)
          /\ e \in EntriesOf(team_state, The(last).player)

\* C27 undo(p) touches at most one team and only an entry of p: when an undo
\* changes the teams, exactly one roster loses exactly one entry, that entry has
\* player_num = p (the "p_" prefix of a display name built by assign never picks
\* another player: undo(1) does not remove player 12), the team's remaining
\* entries keep their order, and the other teams and the current card are
\* unchanged.
C27_UndoFrame ==
    [][ resp'.op = "undo" =>
          /\ current_card' = current_card
          /\ DOMAIN team_state' = DOMAIN team_state
          /\ team_state' # team_state =>
                LET target == IntOf[The(resp'.player)]
                IN  \E i \in Teams :
                        /\ \A k \in Teams \ {i} : team_state'[k] = team_state[k]
                        /\ team_state'[i].name = team_state[i].name
                        /\ \E j \in DOMAIN Roster(i) :
                              /\ Roster(i)[j].player_num = target
                              /\ Triples(team_state'[i].players)
                                   = RemoveAt(Triples(Roster(i)), j)
      ]_vars

\* undo(1) has scanned past an entry of player 12 and removed the entry of
\* player 1 behind it; the entry of player 12 is still on the roster.
C27_Witness ==
    /\ chain # None
    /\ resp = Redirect("undo", Some(<<"1">>))
    /\ \E i \in Teams :
          /\ Len(Mid[i].players) = 2
          /\ Mid[i].players[1].player_num = 12
          /\ Mid[i].players[2].player_num = 1
          /\ Len(Roster(i)) = 1
          /\ SameEntry(Roster(i)[1], Mid[i].players[1])

\* C28 Full-state round trip: when player p has no roster entry on any team, an
\* accepted assign(T, p, price) followed at once by undo(p) returns every team's
\* balance and roster, every idx included, to their values before the assign.
C28_RoundTrip ==
    (chain # None /\ EntriesOf(Assigned.pre, Assigned.player) = {}) =>
        team_state = Assigned.pre

\* The round trip has run at a price other than 0 on a team that already held an
\* entry of another player.
C28_Witness ==
    /\ chain # None
    /\ resp.op = "undo"
    /\ EntriesOf(Assigned.pre, Assigned.player) = {}
    /\ Assigned.amount # 0
    /\ Assigned.pre[AssignedPos].players # <<>>
    /\ Roster(AssignedPos) # <<>>

\* C29 Every displayed team exists in the state: in every state of the serving
\* process, after each completed request (uploads that replace the team-name
\* list and reset included), every name of TEAM_NAMES is a key of team_state.
C29_DisplayedTeamsExist ==
    serving => \A k \in DOMAIN TEAM_NAMES : HasTeam(team_state, TEAM_NAMES[k])

\* An upload has put a name on the list that the state did not hold: the
\* reconcile has added it as a fresh team behind a team that holds entries.
C29_Witness ==
    /\ serving
    /\ resp = RedirectAdmin("upload")
    /\ TEAM_NAMES = <<"B", "A">>
    /\ Len(team_state) = 2
    /\ team_state[1].name = "B" /\ team_state[1].players # <<>>
    /\ team_state[2] = FreshTeam("A")

====
